---- MODULE Spec2Model ----
(***************************************************************************)
(* Model of the realtime messaging layer of the chat client:               *)
(* src/src/services/socketService.js (SocketService) together with the     *)
(* credential store it reads (getStoredToken) and the socket.io transport  *)
(* whose events drive it, and the message list of the chat view            *)
(* (ChatScreen, src/src/screens/RegisterScreen.js) that listens to it.     *)
(*                                                                         *)
(* The JavaScript event loop runs one task at a time, so every action      *)
(* below is one task: a public call up to its first suspension point, the  *)
(* continuation after an await, a timer callback or a transport event      *)
(* with all the handlers registered for it.                                *)
(***************************************************************************)
EXTENDS Integers, Sequences, FiniteSets, TLC

\* ---------------------------------------------------------------- bounds
MaxCalls == 3          \* connect()/forceReconnect() calls issued in a run
MaxShortCalls == 2     \* the same, in the runs of the Short specifications
MaxStoreWrites == 1    \* writes to the credential store in a run
MaxRequests == 2       \* getChatHistory() calls issued in a run
MaxLen == 3            \* length of the message list of the chat view
MaxMounts == 2         \* times the chat screen is opened in a run

CallIds == 1..MaxCalls
TransportIds == 1..MaxCalls      \* every call opens at most one transport
Tokens == {1, 2}                 \* two users' credentials
NoToken == 0                     \* getStoredToken() returned null
NoSocket == 0                    \* this.socket === null
ReqIds == 1..MaxRequests
Users == {1, 2}                  \* user ids (otherUserId, from/to_user_id)
NoUser == 0
MountIds == 1..MaxMounts

VARIABLES
    socket,        \* this.socket: NoSocket or the id of the transport held
    isConnected,   \* this.isConnected
    isConnecting,  \* this.isConnecting
    tstate,        \* per transport: "none" (not created), "opening",
                   \*   "open", "dropped" (lost, retrying), "closed" (torn down)
    ttoken,        \* per transport: the credential of its handshake (auth.token)
    towner,        \* per transport: the connect() call whose handlers it carries
    nextT,         \* number of transports created so far by io()
    storedToken,   \* credential store content (NoToken when absent)
    storeWrites,   \* number of writes made to the credential store
    calls,         \* per call: the promise and the position of connect()
    nCalls,        \* number of calls issued
    emitted,       \* connection notifications delivered by the last task
    heard,         \* what a registered listener heard last before that
                   \*   task: <<>> (nothing yet) or <<b>>
    reqs,          \* per getChatHistory() call: its promise, timer, handlers
    nReqs,         \* number of getChatHistory() calls issued
    lastSend,      \* what the last sendMessage() call did
    messageListeners,     \* this.messageListeners, in insertion order
    connectionListeners,  \* this.connectionListeners, in insertion order
    invoked,       \* the listener callbacks run by the last dispatcher
                   \*   task, in order
    propagated,    \* whether that task threw to the transport callback
    messages,      \* ChatScreen: the message list (state `messages`)
    sending,       \* ChatScreen: the state `sending`
    connected,     \* ChatScreen: the state `connected`
    screens,       \* per opening of the chat screen: the position of its
                   \*   initializeChat and what it registered
    nMounts,       \* number of times the chat screen was opened
    outbox,        \* texts sent by the screen that the server has not
                   \*   confirmed yet, oldest first
    nextId,        \* the id the server gives to the next message it stores
    nSends         \* number of messages sent from the screen

serviceVars == <<socket, isConnected, isConnecting, tstate, ttoken, towner,
                 nextT, storedToken, storeWrites, calls, nCalls, emitted,
                 heard>>
requestVars == <<reqs, nReqs, lastSend>>
dispatchVars == <<messageListeners, connectionListeners, invoked, propagated>>
screenVars == <<connected, screens, nMounts, outbox, nextId, nSends>>
viewVars == <<messages, sending, screenVars>>

vars == <<serviceVars, requestVars, dispatchVars, viewVars>>

\* A call that has not been issued yet.
\*   kind     "connect" or "force" (the connect() inside forceReconnect())
\*   path     the branch connect() took: "wait" (lines 26-38),
\*            "established" (40-44) or "attempt" (46-92)
\*   pc       "idle", "awaitToken", "awaitTransport", "waiting", "done"
\*   token    the credential in the store when the call was issued, which
\*            is what its getStoredToken() read returns
\*   outcome  of the promise: "pending", "resolved", "noCredential",
\*            "timeout", "connectError"
\*   timer    the 10 s timer: "none", "pending", "cleared", "fired"
\*   overlap  the calls that were unsettled when the call was issued
IdleCall == [kind |-> "none", path |-> "none", pc |-> "idle",
             token |-> NoToken, outcome |-> "pending", timer |-> "none",
             overlap |-> {}]

Pending(c) == c.pc # "idle" /\ c.outcome = "pending"
Settled(c) == c.pc # "idle" /\ c.outcome # "pending"
Live(t) == tstate[t] \in {"opening", "open", "dropped"}

\* ------------------------------------------------ the service as a value
\* The mutable part of the service that one task reads and writes, so that
\* the statements of a method compose in program order.
Cur == [socket |-> socket, isConnected |-> isConnected,
        isConnecting |-> isConnecting, tstate |-> tstate,
        calls |-> calls, emitted |-> <<>>]

\* The last notification delivered so far.
LastHeard == IF emitted = <<>> THEN heard ELSE <<emitted[Len(emitted)]>>

Assign(s) ==
    /\ socket' = s.socket
    /\ isConnected' = s.isConnected
    /\ isConnecting' = s.isConnecting
    /\ tstate' = s.tstate
    /\ calls' = s.calls
    /\ emitted' = s.emitted
    /\ heard' = LastHeard

\* The listeners a chat screen registers (initializeChat, lines 302-307):
\* for its k-th opening an object with onMessage and onMessageConfirmed,
\* and the function handleConnectionChange of that opening.
ChatMessageListener(k) ==
    [name |-> k, shape |-> "object", onMessage |-> TRUE,
     onMessageConfirmed |-> TRUE, throws |-> FALSE]
ChatConnectionListener(k) ==
    [name |-> k, shape |-> "function", onMessage |-> FALSE,
     onMessageConfirmed |-> FALSE, throws |-> FALSE]

\* The openings of the chat screen whose component is mounted and whose
\* listener is registered: only their callbacks change a state.
HearingMessages ==
    {k \in MountIds :
        /\ screens[k].mounted
        /\ \E i \in 1..Len(messageListeners) :
              messageListeners[i] = ChatMessageListener(k)}
HearingConnection ==
    {k \in MountIds :
        /\ screens[k].mounted
        /\ \E i \in 1..Len(connectionListeners) :
              connectionListeners[i] = ChatConnectionListener(k)}

\* ChatScreen.handleConnectionChange for the notifications of one task:
\* setConnected(isConnected), when the screen's listener is registered.
handleConnectionChange(notes) ==
    IF notes # <<>> /\ HearingConnection # {}
    THEN notes[Len(notes)]
    ELSE connected

\* A task of the connection manager: it touches neither the history
\* requests, nor the listener sets; of the chat view it changes what the
\* view's connection listener sets.
Commit(s) ==
    /\ Assign(s)
    /\ connected' = handleConnectionChange(s.emitted)
    /\ UNCHANGED <<requestVars, dispatchVars, messages, sending, screens,
                   nMounts, outbox, nextId, nSends>>

\* notifyConnectionListeners(b): every registered listener is called with b.
notifyConnectionListeners(s, b) == [s EXCEPT !.emitted = Append(@, b)]

\* Promise settlement: only the first resolve/reject of a promise counts.
Settle(s, p, result) ==
    IF s.calls[p].outcome = "pending"
    THEN [s EXCEPT !.calls[p].outcome = result, !.calls[p].pc = "done"]
    ELSE s

\* clearTimeout(timeout) of call p: cancels the timer if it has not fired.
clearTimeout(s, p) ==
    IF s.calls[p].timer = "pending"
    THEN [s EXCEPT !.calls[p].timer = "cleared"]
    ELSE s

\* setupEventListeners 'disconnect' handler.
onDisconnect(s) ==
    notifyConnectionListeners([s EXCEPT !.isConnected = FALSE], FALSE)

\* setupEventListeners 'reconnect' handler.
onReconnect(s) ==
    notifyConnectionListeners([s EXCEPT !.isConnected = TRUE], TRUE)

\* onConnect without its clearTimeout(timeout): the timer stays armed.
onConnectKeepsTimer(s, p) ==
    LET s2 == [s EXCEPT !.isConnected = TRUE, !.isConnecting = FALSE]
        s3 == notifyConnectionListeners(s2, TRUE)
    IN  Settle(s3, p, "resolved")

\* The 'connect' handler registered by connect() call p.
onConnect(s, p) ==
    LET s1 == clearTimeout(s, p)
        s2 == [s1 EXCEPT !.isConnected = TRUE, !.isConnecting = FALSE]
        s3 == notifyConnectionListeners(s2, TRUE)
    IN  Settle(s3, p, "resolved")

\* The 'connect_error' handler registered by connect() call p.
onConnectError(s, p) ==
    LET s1 == clearTimeout(s, p)
        s2 == [s1 EXCEPT !.isConnecting = FALSE]
    IN  Settle(s2, p, "connectError")

\* socket.disconnect() of the transport library: a transport that is
\* connected emits 'disconnect' to its handlers synchronously, then the
\* transport is closed and emits nothing any more.
socketDisconnect(s, t) ==
    LET s1 == IF s.tstate[t] = "open" THEN onDisconnect(s) ELSE s
    IN  [s1 EXCEPT !.tstate[t] = "closed"]

\* SocketService.disconnect()
disconnect(s) ==
    IF s.socket # NoSocket
    THEN LET s1 == socketDisconnect(s, s.socket)
             s2 == [s1 EXCEPT !.socket = NoSocket,
                              !.isConnected = FALSE,
                              !.isConnecting = FALSE]
         IN  notifyConnectionListeners(s2, FALSE)
    ELSE s

\* noCredential without the resets of isConnecting.
noCredentialKeepsFlag(s, p) == Settle(s, p, "noCredential")

\* connect() when getStoredToken() returned null (lines 49-52, then the
\* catch block of lines 94-98): the flag is reset and the call rejects.
noCredential(s, p) ==
    Settle([s EXCEPT !.isConnecting = FALSE], p, "noCredential")

\* The calls whose promise is still unsettled.
Unsettled(s) == {q \in CallIds : Pending(s.calls[q])}

\* connectStart without the already-connected check of lines 41-44.
connectStartAlwaysAttempts(s, p, kind) ==
    LET base == [IdleCall EXCEPT !.kind = kind, !.token = storedToken,
                                 !.overlap = Unsettled(s)]
    IN  IF s.isConnecting
        THEN [s EXCEPT !.calls[p] = [base EXCEPT !.path = "wait",
                                                 !.pc = "waiting"]]
        ELSE [s EXCEPT !.isConnecting = TRUE,
                       !.calls[p] = [base EXCEPT !.path = "attempt",
                                                 !.pc = "awaitToken"]]

\* SocketService.connect() up to its first suspension point, for call p.
connectStart(s, p, kind) ==
    LET base == [IdleCall EXCEPT !.kind = kind, !.token = storedToken,
                                 !.overlap = Unsettled(s)]
    IN  IF s.isConnecting
        THEN [s EXCEPT !.calls[p] = [base EXCEPT !.path = "wait",
                                                 !.pc = "waiting"]]
        ELSE IF s.isConnected /\ s.socket # NoSocket
        THEN [s EXCEPT !.calls[p] = [base EXCEPT !.path = "established",
                                                 !.pc = "done",
                                                 !.outcome = "resolved"]]
        ELSE [s EXCEPT !.isConnecting = TRUE,
                       !.calls[p] = [base EXCEPT !.path = "attempt",
                                                 !.pc = "awaitToken"]]

\* ---------------------------------------------------------------- Init
ServiceInit ==
    /\ socket = NoSocket
    /\ isConnected = FALSE
    /\ isConnecting = FALSE
    /\ tstate = [t \in TransportIds |-> "none"]
    /\ ttoken = [t \in TransportIds |-> NoToken]
    /\ towner = [t \in TransportIds |-> 0]
    /\ nextT = 0
    /\ storedToken \in {NoToken, 1}
    /\ storeWrites = 0
    /\ calls = [p \in CallIds |-> IdleCall]
    /\ nCalls = 0
    /\ emitted = <<>>
    /\ heard = <<>>

\* A getChatHistory() call that has not been issued yet.
\*   key      its otherUserId
\*   on       the transport that was this.socket when it was issued: the
\*            one its handlers were registered on
\*   outcome  of the promise: "pending", "resolved", "error", "timeout",
\*            or "notConnected" when the call threw instead of returning
\*   result   other_user_id of the event whose messages it resolved with
\*   timer    the 10 s timer: "none", "pending", "cleared", "fired"
\*   hist     handleChatHistory is registered on transport `on`
\*   err      handleError is registered on transport `on`
\*   threw    one of its callbacks ended with an uncaught TypeError
IdleReq == [pc |-> "idle", key |-> NoUser, on |-> NoSocket,
            outcome |-> "pending", result |-> NoUser, timer |-> "none",
            hist |-> FALSE, err |-> FALSE, threw |-> FALSE]

RequestInit ==
    /\ reqs = [r \in ReqIds |-> IdleReq]
    /\ nReqs = 0
    /\ lastSend = [result |-> "none", on |-> NoSocket]

DispatchInit ==
    /\ messageListeners = <<>>
    /\ connectionListeners = <<>>
    /\ invoked = <<>>
    /\ propagated = FALSE

\* A chat screen that was not opened.
\*   pc        position of initializeChat: "closed", "awaitUser",
\*             "awaitConnect", "ready" (listeners added), "failed"
\*   mounted   the component is mounted (its cleanup has not run)
\*   call      the connect() call initializeChat awaits (0: none)
\*   req       the getChatHistory() call of loadChatHistory (0: none)
\*   loading   loadChatHistory awaits the promise of req
ClosedScreen == [pc |-> "closed", mounted |-> FALSE, call |-> 0, req |-> 0,
                 loading |-> FALSE]

\* The two users of the conversation on display, and the shape of an
\* entry of the message list.
Ids == {1, 2}
Texts == {"a", "b"}
Peer(u) == IF u = 1 THEN 2 ELSE 1
CurrentUser == 1
OtherUser == Peer(CurrentUser)
Entry(id, text, from, to, flag) ==
    [id |-> id, message |-> text, from_user_id |-> from,
     to_user_id |-> to, sending |-> flag]

\* The messages the server holds when the run starts, by id: one of each
\* user of the conversation to the other, and one a third user sent to
\* CurrentUser.
Stranger == 3
Stored ==
    <<Entry(1, "a", OtherUser, CurrentUser, FALSE),
      Entry(2, "b", CurrentUser, OtherUser, FALSE),
      Entry(3, "a", Stranger, CurrentUser, FALSE)>>

ScreenInit ==
    /\ connected = FALSE
    /\ screens = [m \in MountIds |-> ClosedScreen]
    /\ nMounts = 0
    /\ outbox = <<>>
    /\ nextId = Len(Stored) + 1
    /\ nSends = 0

ViewInit ==
    /\ messages = <<>>
    /\ sending = FALSE
    /\ ScreenInit

Init == ServiceInit /\ RequestInit /\ DispatchInit /\ ViewInit

\* -------------------------------------------------------------- actions
\* A consumer calls connect().
Connect ==
    /\ nCalls < MaxCalls
    /\ nCalls' = nCalls + 1
    /\ Commit(connectStart(Cur, nCalls + 1, "connect"))
    /\ UNCHANGED <<ttoken, towner, nextT, storedToken, storeWrites>>

\* A consumer calls forceReconnect(): disconnect() then connect().
ForceReconnect ==
    /\ nCalls < MaxCalls
    /\ nCalls' = nCalls + 1
    /\ Commit(connectStart(disconnect(Cur), nCalls + 1, "force"))
    /\ UNCHANGED <<ttoken, towner, nextT, storedToken, storeWrites>>

\* A consumer calls disconnect().
Disconnect ==
    /\ Commit(disconnect(Cur))
    /\ UNCHANGED <<ttoken, towner, nextT, storedToken, storeWrites, nCalls>>

\* The credential store replies to call p: connect() resumes after its await.
TokenReply(p) ==
    /\ calls[p].pc = "awaitToken"
    /\ IF calls[p].token = NoToken
       THEN /\ Commit(noCredential(Cur, p))
            /\ UNCHANGED <<ttoken, towner, nextT>>
       ELSE LET s1 == IF socket # NoSocket /\ ~isConnected
                      THEN disconnect(Cur) ELSE Cur
                t  == nextT + 1
                s2 == [s1 EXCEPT !.socket = t,
                                 !.tstate[t] = "opening",
                                 !.calls[p].pc = "awaitTransport",
                                 !.calls[p].timer = "pending"]
            IN  /\ Commit(s2)
                /\ nextT' = t
                /\ ttoken' = [ttoken EXCEPT ![t] = calls[p].token]
                /\ towner' = [towner EXCEPT ![t] = p]
    /\ UNCHANGED <<storedToken, storeWrites, nCalls>>

\* The 10 s timer of call p expires.
ConnectTimeout(p) ==
    /\ calls[p].timer = "pending"
    /\ Commit(Settle([Cur EXCEPT !.isConnecting = FALSE,
                                 !.calls[p].timer = "fired"], p, "timeout"))
    /\ UNCHANGED <<ttoken, towner, nextT, storedToken, storeWrites, nCalls>>

\* Transport t emits 'connect' (first connection, or connection regained).
TransportConnect(t) ==
    /\ tstate[t] \in {"opening", "dropped"}
    /\ Commit(onConnect([Cur EXCEPT !.tstate[t] = "open"], towner[t]))
    /\ UNCHANGED <<ttoken, towner, nextT, storedToken, storeWrites, nCalls>>

\* Transport t emits 'connect_error' and keeps retrying.
TransportConnectError(t) ==
    /\ tstate[t] \in {"opening", "dropped"}
    /\ Commit(onConnectError(Cur, towner[t]))
    /\ UNCHANGED <<ttoken, towner, nextT, storedToken, storeWrites, nCalls>>

\* Transport t loses its connection and emits 'disconnect'.
TransportDisconnect(t) ==
    /\ tstate[t] = "open"
    /\ Commit(onDisconnect([Cur EXCEPT !.tstate[t] = "dropped"]))
    /\ UNCHANGED <<ttoken, towner, nextT, storedToken, storeWrites, nCalls>>

\* Transport t regains its connection and emits 'reconnect'.
TransportReconnect(t) ==
    /\ tstate[t] = "dropped"
    /\ Commit(onReconnect([Cur EXCEPT !.tstate[t] = "open"]))
    /\ UNCHANGED <<ttoken, towner, nextT, storedToken, storeWrites, nCalls>>

\* The 100 ms poll of a waiting connect() call q finds isConnecting false.
WaiterPoll(q) ==
    /\ calls[q].pc = "waiting"
    /\ ~isConnecting
    /\ Commit(Settle(Cur, q, "resolved"))
    /\ UNCHANGED <<ttoken, towner, nextT, storedToken, storeWrites, nCalls>>

\* Another user logs in (storeToken) or the user logs out (clearStorage).
StoreWrite(v) ==
    /\ storeWrites < MaxStoreWrites
    /\ v # storedToken
    /\ storedToken' = v
    /\ storeWrites' = storeWrites + 1
    /\ emitted' = <<>>
    /\ heard' = LastHeard
    /\ UNCHANGED <<socket, isConnected, isConnecting, tstate, ttoken, towner,
                   nextT, calls, nCalls>>
    /\ UNCHANGED <<requestVars, dispatchVars, viewVars>>

\* The events that follow from the calls made: store replies, timers,
\* transport events and polls.
NextEvents ==
    \/ \E p \in CallIds : TokenReply(p)
    \/ \E p \in CallIds : ConnectTimeout(p)
    \/ \E t \in TransportIds : TransportConnect(t)
    \/ \E t \in TransportIds : TransportConnectError(t)
    \/ \E t \in TransportIds : TransportDisconnect(t)
    \/ \E t \in TransportIds : TransportReconnect(t)
    \/ \E q \in CallIds : WaiterPoll(q)

Next ==
    \/ Connect
    \/ ForceReconnect
    \/ Disconnect
    \/ \E v \in Tokens \cup {NoToken} : StoreWrite(v)
    \/ NextEvents

Spec == Init /\ [][Next]_vars

\* The same system when consumers only ever call connect(): no explicit
\* disconnect(), no forceReconnect(), no change of the stored credential.
NextConnects ==
    \/ Connect
    \/ NextEvents

ConnectsSpec == Init /\ [][NextConnects]_vars

\* The system when no consumer calls disconnect() on its own: the stored
\* credential may change and forceReconnect() may be called.
NextReconnects ==
    \/ Connect
    \/ ForceReconnect
    \/ \E v \in Tokens \cup {NoToken} : StoreWrite(v)
    \/ NextEvents

ReconnectsSpec == Init /\ [][NextReconnects]_vars

\* Short runs: every operation of the service, fewer calls.  In a session
\* the stored credential stays what it was at the start.
ShortConnect == nCalls < MaxShortCalls /\ Connect
ShortForceReconnect == nCalls < MaxShortCalls /\ ForceReconnect

NextShortSession ==
    \/ ShortConnect
    \/ ShortForceReconnect
    \/ Disconnect
    \/ NextEvents

NextShort ==
    \/ NextShortSession
    \/ \E v \in Tokens \cup {NoToken} : StoreWrite(v)

ShortSpec == Init /\ [][NextShort]_vars

\* Timers expire: a pending 10 s timer is not postponed for ever.
\* The credential store answers every read, and the 100 ms poll of a
\* waiting call keeps running.
Fairness ==
    \A p \in CallIds : /\ WF_vars(ConnectTimeout(p))
                        /\ WF_vars(TokenReply(p))
                        /\ WF_vars(WaiterPoll(p))

FairShortSessionSpec == Init /\ [][NextShortSession]_vars /\ Fairness

\* ------------------------------------------------------ sending a message
\* sendMessage without the test of this.isConnected.
sendMessageIgnoresFlag(s) ==
    IF s.socket = NoSocket
    THEN [result |-> "thrown", on |-> NoSocket]
    ELSE [result |-> "emitted", on |-> s.socket]

\* SocketService.sendMessage(): what the call does, "thrown" (the
\* not-connected error) or "emitted" (send_message on transport `on`).
sendMessage(s) ==
    IF s.socket = NoSocket \/ ~s.isConnected
    THEN [result |-> "thrown", on |-> NoSocket]
    ELSE [result |-> "emitted", on |-> s.socket]

\* A consumer calls sendMessage().
SendMessage ==
    /\ lastSend' = sendMessage(Cur)
    /\ Assign(Cur)
    /\ UNCHANGED <<ttoken, towner, nextT, storedToken, storeWrites, nCalls>>
    /\ UNCHANGED <<reqs, nReqs, dispatchVars, viewVars>>

NextSend ==
    \/ NextShortSession
    \/ SendMessage

SendSpec == Init /\ [][NextSend]_vars

\* ------------------------------------------------------ history requests
\* The elements of a set of request ids, in increasing order: the order in
\* which their handlers were registered.
RECURSIVE Ascending(_)
Ascending(S) ==
    IF S = {} THEN <<>>
    ELSE LET m == CHOOSE x \in S : \A y \in S : x <= y
         IN  <<m>> \o Ascending(S \ {m})

\* resolve()/reject() of request r: only the first settlement counts.
SettleReq(q, r, result, u) ==
    IF q[r].outcome = "pending"
    THEN [q EXCEPT ![r].outcome = result, ![r].result = u]
    ELSE q

\* clearTimeout(timeout) of request r.
clearReqTimeout(q, r) ==
    IF q[r].timer = "pending" THEN [q EXCEPT ![r].timer = "cleared"] ELSE q

\* this.socket.off('chat_history', handleChatHistory) and
\* this.socket.off('error', handleError) when this.socket is transport
\* sock: the handlers go only if that is where they were registered.
offHandlers(q, r, sock) ==
    IF q[r].on = sock
    THEN [q EXCEPT ![r].hist = FALSE, ![r].err = FALSE]
    ELSE q

\* handleChatHistory of request r for an event with other_user_id u, when
\* this.socket is sock.  this.socket.off(...) on null is a TypeError: the
\* handler ends there, after clearTimeout and before resolve.
handleChatHistory(q, r, u, sock) ==
    IF q[r].key # u THEN q
    ELSE LET q1 == clearReqTimeout(q, r)
         IN  IF sock = NoSocket
             THEN [q1 EXCEPT ![r].threw = TRUE]
             ELSE SettleReq(offHandlers(q1, r, sock), r, "resolved", u)

\* handleError of request r, registered with once(): the registration is
\* dropped by the transport before the handler runs.
handleError(q, r, sock) ==
    LET q1 == clearReqTimeout([q EXCEPT ![r].err = FALSE], r)
    IN  IF sock = NoSocket
        THEN [q1 EXCEPT ![r].threw = TRUE]
        ELSE SettleReq(offHandlers(q1, r, sock), r, "error", NoUser)

\* The callback of the 10 s timer of request r.
onRequestTimeout(q, r, sock) ==
    LET q1 == [q EXCEPT ![r].timer = "fired"]
    IN  IF sock = NoSocket
        THEN [q1 EXCEPT ![r].threw = TRUE]
        ELSE SettleReq(offHandlers(q1, r, sock), r, "timeout", NoUser)

\* The transport calls the handlers registered for an event one after the
\* other, in registration order; a handler that throws ends the emit.
RECURSIVE emitChatHistory(_, _, _, _)
emitChatHistory(q, todo, u, sock) ==
    IF todo = <<>> THEN q
    ELSE LET r  == Head(todo)
             q1 == handleChatHistory(q, r, u, sock)
         IN  IF q1[r].threw /\ q[r].key = u THEN q1
             ELSE emitChatHistory(q1, Tail(todo), u, sock)

RECURSIVE emitError(_, _, _)
emitError(q, todo, sock) ==
    IF todo = <<>> THEN q
    ELSE LET q1 == handleError(q, Head(todo), sock)
         IN  IF sock = NoSocket THEN q1
             ELSE emitError(q1, Tail(todo), sock)

\* getChatHistory(u), call r, when this.socket is sock and this.isConnected
\* is conn.
getChatHistory(q, r, u, sock, conn) ==
    IF sock = NoSocket \/ ~conn
    THEN [q EXCEPT ![r] = [IdleReq EXCEPT !.pc = "refused", !.key = u,
                                          !.outcome = "notConnected"]]
    ELSE [q EXCEPT ![r] = [IdleReq EXCEPT !.pc = "issued", !.key = u,
                                          !.on = sock, !.timer = "pending",
                                          !.hist = TRUE, !.err = TRUE]]

\* A request task leaves the connection manager, the listener sets and the
\* chat view as they are.
RequestTask ==
    /\ Assign(Cur)
    /\ UNCHANGED <<ttoken, towner, nextT, storedToken, storeWrites, nCalls>>
    /\ UNCHANGED <<lastSend, dispatchVars, viewVars>>

\* A consumer calls getChatHistory(u).
GetChatHistory(u) ==
    /\ nReqs < MaxRequests
    /\ nReqs' = nReqs + 1
    /\ reqs' = getChatHistory(reqs, nReqs + 1, u, socket, isConnected)
    /\ RequestTask

\* The server answers a get_chat_history for user u that was emitted on
\* transport t: t delivers chat_history with other_user_id = u.
ChatHistoryEvent(t, u) ==
    /\ tstate[t] = "open"
    /\ \E r \in ReqIds : reqs[r].on = t /\ reqs[r].key = u
    /\ reqs' = emitChatHistory(reqs,
                  Ascending({r \in ReqIds : reqs[r].on = t /\ reqs[r].hist}),
                  u, socket)
    /\ nReqs' = nReqs
    /\ RequestTask

\* What an error event of the server answers: a history request, or a
\* send_message.
SendCause == 0
ErrorCauses == ReqIds \cup {SendCause}

\* Transport t delivers the server's error event in answer to c.
ErrorEvent(t, c) ==
    /\ tstate[t] = "open"
    /\ IF c = SendCause
       THEN lastSend.result = "emitted" /\ lastSend.on = t
       ELSE reqs[c].on = t
    /\ reqs' = emitError(reqs,
                  Ascending({r \in ReqIds : reqs[r].on = t /\ reqs[r].err}),
                  socket)
    /\ nReqs' = nReqs
    /\ RequestTask

\* The 10 s timer of request r expires.
HistoryTimeout(r) ==
    /\ reqs[r].timer = "pending"
    /\ reqs' = onRequestTimeout(reqs, r, socket)
    /\ nReqs' = nReqs
    /\ RequestTask

NextHistory ==
    \/ NextShortSession
    \/ SendMessage
    \/ \E u \in Users : GetChatHistory(u)
    \/ \E t \in TransportIds, u \in Users : ChatHistoryEvent(t, u)
    \/ \E t \in TransportIds, c \in ErrorCauses : ErrorEvent(t, c)
    \/ \E r \in ReqIds : HistoryTimeout(r)

HistorySpec == Init /\ [][NextHistory]_vars

\* ------------------------------------------------------------ dispatcher
\* The listeners consumers register.  A listener is a function or an
\* object; an object may have onMessage and onMessageConfirmed; `throws`
\* says whether its callbacks throw on every invocation.
Function(n, throws) ==
    [name |-> n, shape |-> "function", onMessage |-> FALSE,
     onMessageConfirmed |-> FALSE, throws |-> throws]
Object(n, onMessage, onMessageConfirmed, throws) ==
    [name |-> n, shape |-> "object", onMessage |-> onMessage,
     onMessageConfirmed |-> onMessageConfirmed, throws |-> throws]

MessageListeners ==
    {Function("f", FALSE), Function("g", TRUE),
     Object("a", TRUE, TRUE, FALSE), Object("b", TRUE, TRUE, TRUE),
     Object("c", FALSE, TRUE, FALSE)}
ConnectionListeners == {Function("h", FALSE), Function("k", TRUE)}

\* What one delivery has done so far: the callbacks run, in order, and
\* whether an exception left the delivery.
EmptySweep == [calls |-> <<>>, propagated |-> FALSE]

\* try { callback } catch (error) { console.error(...) }
invokeGuarded(acc, l, via) ==
    [acc EXCEPT !.calls = Append(@, [listener |-> l, via |-> via])]

\* The callback called outside any try/catch.
invokeUnguarded(acc, l, via) ==
    [acc EXCEPT !.calls = Append(@, [listener |-> l, via |-> via]),
                !.propagated = l.throws]

\* Set.prototype.add / delete on a set kept in insertion order.
setAdd(ls, l) ==
    IF \E i \in 1..Len(ls) : ls[i] = l THEN ls ELSE Append(ls, l)
setDelete(ls, l) == SelectSeq(ls, LAMBDA x : x # l)

\* notifyMessageListeners with the callbacks outside the try/catch.
RECURSIVE notifyMessageListenersUnguarded(_, _)
notifyMessageListenersUnguarded(ls, acc) ==
    IF ls = <<>> \/ acc.propagated THEN acc
    ELSE LET l == Head(ls)
             acc1 == IF l.shape = "function"
                     THEN invokeUnguarded(acc, l, "call")
                     ELSE IF l.onMessage
                     THEN invokeUnguarded(acc, l, "onMessage")
                     ELSE acc
         IN  notifyMessageListenersUnguarded(Tail(ls), acc1)

\* notifyMessageListeners(message): forEach over this.messageListeners.
RECURSIVE notifyMessageListeners(_, _)
notifyMessageListeners(ls, acc) ==
    IF ls = <<>> \/ acc.propagated THEN acc
    ELSE LET l == Head(ls)
             acc1 == IF l.shape = "function"
                     THEN invokeGuarded(acc, l, "call")
                     ELSE IF l.onMessage
                     THEN invokeGuarded(acc, l, "onMessage")
                     ELSE acc
         IN  notifyMessageListeners(Tail(ls), acc1)

\* The forEach of notifyConnectionListeners(b) over
\* this.connectionListeners.
RECURSIVE notifyEachConnectionListener(_, _)
notifyEachConnectionListener(ls, acc) ==
    IF ls = <<>> \/ acc.propagated THEN acc
    ELSE notifyEachConnectionListener(Tail(ls),
                                      invokeGuarded(acc, Head(ls), "call"))

\* The 'message_sent' handler of setupEventListeners.
RECURSIVE onMessageSent(_, _)
onMessageSent(ls, acc) ==
    IF ls = <<>> \/ acc.propagated THEN acc
    ELSE LET l == Head(ls)
             acc1 == IF l.onMessageConfirmed
                     THEN invokeUnguarded(acc, l, "onMessageConfirmed")
                     ELSE acc
         IN  onMessageSent(Tail(ls), acc1)

\* A dispatcher task leaves the connection manager, the history requests
\* and the chat view as they are.
DispatchTask ==
    /\ Assign(Cur)
    /\ UNCHANGED <<ttoken, towner, nextT, storedToken, storeWrites, nCalls>>
    /\ UNCHANGED <<requestVars, viewVars>>

\* A dispatcher task that delivers no message event.
NoDelivery == invoked' = <<>> /\ propagated' = FALSE

AddMessageListener(l) ==
    /\ messageListeners' = setAdd(messageListeners, l)
    /\ UNCHANGED connectionListeners
    /\ NoDelivery
    /\ DispatchTask

RemoveMessageListener(l) ==
    /\ messageListeners' = setDelete(messageListeners, l)
    /\ UNCHANGED connectionListeners
    /\ NoDelivery
    /\ DispatchTask

AddConnectionListener(l) ==
    /\ connectionListeners' = setAdd(connectionListeners, l)
    /\ UNCHANGED messageListeners
    /\ NoDelivery
    /\ DispatchTask

RemoveConnectionListener(l) ==
    /\ connectionListeners' = setDelete(connectionListeners, l)
    /\ UNCHANGED messageListeners
    /\ NoDelivery
    /\ DispatchTask

\* Transport t delivers receive_message.
ReceiveMessageEvent(t) ==
    /\ tstate[t] = "open"
    /\ LET done == notifyMessageListeners(messageListeners, EmptySweep)
       IN  /\ invoked' = done.calls
           /\ propagated' = done.propagated
    /\ UNCHANGED <<messageListeners, connectionListeners>>
    /\ DispatchTask

\* Transport t delivers message_sent.
MessageSentEvent(t) ==
    /\ tstate[t] = "open"
    /\ LET done == onMessageSent(messageListeners, EmptySweep)
       IN  /\ invoked' = done.calls
           /\ propagated' = done.propagated
    /\ UNCHANGED <<messageListeners, connectionListeners>>
    /\ DispatchTask

\* One connect() call, then everything that can follow from it.
FirstConnect == nCalls = 0 /\ Connect

NextFirstSession ==
    \/ FirstConnect
    \/ Disconnect
    \/ \E p \in CallIds : TokenReply(p)
    \/ \E p \in CallIds : ConnectTimeout(p)
    \/ \E t \in TransportIds : TransportConnect(t)
    \/ \E t \in TransportIds : TransportConnectError(t)
    \/ \E t \in TransportIds : TransportDisconnect(t)
    \/ \E t \in TransportIds : TransportReconnect(t)

NextDispatch ==
    \/ NextFirstSession
    \/ \E l \in MessageListeners : AddMessageListener(l)
    \/ \E l \in MessageListeners : RemoveMessageListener(l)
    \/ \E l \in ConnectionListeners : AddConnectionListener(l)
    \/ \E l \in ConnectionListeners : RemoveConnectionListener(l)
    \/ \E t \in TransportIds : ReceiveMessageEvent(t)
    \/ \E t \in TransportIds : MessageSentEvent(t)

DispatchSpec == Init /\ [][NextDispatch]_vars

\* ------------------------------------------------------------- chat view
\* The view of user CurrentUser on the conversation with OtherUser.  An
\* entry of the message list has a server id or a temporary one; `sending`
\* is the provisional flag, set on the entries appended by the view's own
\* sendMessage.
Entries ==
    {Entry(i, x, CurrentUser, OtherUser, TRUE) : i \in Ids, x \in Texts}
    \cup {Entry(i, x, u, Peer(u), FALSE) :
             i \in Ids, x \in Texts, u \in Users}
Lists == UNION {[1..n -> Entries] : n \in 0..MaxLen}

\* The messages a message_sent event may carry: the server confirms to
\* the sender, so they are the messages of CurrentUser to any user,
\* whichever view sent them (the service hands every confirmation to
\* every listener).
Confirmations ==
    [id : Ids, message : Texts, from_user_id : {CurrentUser},
     to_user_id : Users]

\* Whether list entry msg is the provisional entry confirmation c is for.
Matches(msg, c) ==
    /\ msg.sending
    /\ msg.message = c.message
    /\ msg.from_user_id = c.from_user_id
    /\ msg.to_user_id = c.to_user_id

\* The rewritten entry with the provisional flag left set.
ConfirmedStillSending(c) ==
    Entry(c.id, c.message, c.from_user_id, c.to_user_id, TRUE)

\* { ...confirmedMessage, sending: false }
Confirmed(c) ==
    Entry(c.id, c.message, c.from_user_id, c.to_user_id, FALSE)

\* handleMessageConfirmed without the test of msg.sending.
handleMessageConfirmedAnyEntry(prev, c) ==
    [i \in 1..Len(prev) |->
        IF Matches([prev[i] EXCEPT !.sending = TRUE], c)
        THEN Confirmed(c) ELSE prev[i]]

\* The state update of handleMessageConfirmed: prevMessages.map(...).
handleMessageConfirmed(prev, c) ==
    [i \in 1..Len(prev) |->
        IF Matches(prev[i], c) THEN Confirmed(c) ELSE prev[i]]

\* The chat view with any list of at most MaxLen entries on display,
\* after a send (setSending(true), line 389) that no confirmation followed.
ReconcilerInit ==
    /\ ServiceInit /\ RequestInit /\ DispatchInit
    /\ storedToken = 1
    /\ messages \in Lists
    /\ sending = TRUE
    /\ ScreenInit

\* The view's listener gets a message_sent confirmation c.
MessageConfirmed(c) ==
    /\ messages' = handleMessageConfirmed(messages, c)
    /\ sending' = FALSE
    /\ UNCHANGED <<serviceVars, requestVars, dispatchVars, screenVars>>

NextReconciler == \E c \in Confirmations : MessageConfirmed(c)

ReconcilerSpec == ReconcilerInit /\ [][NextReconciler]_vars

\* ----------------------------------------------------------- chat screen
\* SocketService.getConnectionStatus()
getConnectionStatus == isConnected

\* A task of the chat screen that calls nothing of the service.
ServiceUntouched ==
    /\ Assign(Cur)
    /\ UNCHANGED <<ttoken, towner, nextT, storedToken, storeWrites, nCalls>>

\* The user opens the conversation: the component mounts with its initial
\* state and its effect starts initializeChat, which awaits getStoredUser().
OpenChat ==
    /\ nMounts < MaxMounts
    /\ \A k \in MountIds : ~screens[k].mounted
    /\ nMounts' = nMounts + 1
    /\ screens' = [screens EXCEPT ![nMounts + 1] =
                      [ClosedScreen EXCEPT !.pc = "awaitUser",
                                           !.mounted = TRUE]]
    /\ messages' = <<>>
    /\ sending' = FALSE
    /\ connected' = FALSE
    /\ ServiceUntouched
    /\ UNCHANGED <<requestVars, dispatchVars, outbox, nextId, nSends>>

\* The object the cleanup of the effect builds to remove the message
\* listener: a new object, equal to none that was registered.
CleanupListener == ChatMessageListener(0)

\* The user leaves the conversation: the component unmounts and the
\* cleanup of its effect runs (lines 262-270).
CloseChat(k) ==
    /\ screens[k].mounted
    /\ screens' = [screens EXCEPT ![k].mounted = FALSE]
    /\ messageListeners' = setDelete(messageListeners, CleanupListener)
    /\ connectionListeners' =
          setDelete(connectionListeners, ChatConnectionListener(k))
    /\ NoDelivery
    /\ messages' = <<>>
    /\ sending' = FALSE
    /\ connected' = FALSE
    /\ ServiceUntouched
    /\ UNCHANGED <<requestVars, nMounts, outbox, nextId, nSends>>

\* initializeChat of opening k from setConnected (line 299) to the call
\* of loadChatHistory (line 310), and loadChatHistory up to its await: the
\* listeners are added, getChatHistory(otherUser.id) is called and, when it
\* throws, the catch block empties the list.  State setters of a
\* component that is no longer mounted do nothing.
InitializeChatReady(k) ==
    LET r  == nReqs + 1
        q  == getChatHistory(reqs, r, OtherUser, socket, isConnected)
    IN  /\ nReqs < MaxRequests
        /\ connected' = IF screens[k].mounted THEN getConnectionStatus
                        ELSE connected
        /\ messageListeners' = setAdd(messageListeners, ChatMessageListener(k))
        /\ connectionListeners' =
              setAdd(connectionListeners, ChatConnectionListener(k))
        /\ NoDelivery
        /\ reqs' = q
        /\ nReqs' = r
        /\ messages' = IF q[r].pc = "refused" /\ screens[k].mounted
                       THEN <<>> ELSE messages
        /\ screens' = [screens EXCEPT ![k].pc = "ready", ![k].req = r,
                                      ![k].loading = (q[r].pc = "issued")]
        /\ ServiceUntouched
        /\ UNCHANGED <<lastSend, sending, nMounts, outbox, nextId, nSends>>

\* initializeChat of opening k ends without registering anything: no
\* stored user (lines 280-284) or connect() rejected (catch, line 312).
InitializeChatFailed(k) ==
    /\ screens' = [screens EXCEPT ![k].pc = "failed"]
    /\ ServiceUntouched
    /\ UNCHANGED <<requestVars, dispatchVars, messages, sending, connected,
                   nMounts, outbox, nextId, nSends>>

\* getStoredUser() replies to initializeChat of opening k (line 279): the
\* user is stored with the credential.  When the service is not connected
\* initializeChat calls connect() and awaits it.
UserReply(k) ==
    /\ screens[k].pc = "awaitUser"
    /\ IF storedToken = NoToken THEN InitializeChatFailed(k)
       ELSE IF getConnectionStatus THEN InitializeChatReady(k)
       ELSE /\ nCalls < MaxCalls
            /\ nCalls' = nCalls + 1
            /\ Assign(connectStart(Cur, nCalls + 1, "connect"))
            /\ screens' = [screens EXCEPT ![k].pc = "awaitConnect",
                                          ![k].call = nCalls + 1]
            /\ UNCHANGED <<ttoken, towner, nextT, storedToken, storeWrites>>
            /\ UNCHANGED <<requestVars, dispatchVars, messages, sending,
                           connected, nMounts, outbox, nextId, nSends>>

\* The connect() call awaited by initializeChat of opening k has settled.
ConnectSettled(k) ==
    /\ screens[k].pc = "awaitConnect"
    /\ Settled(calls[screens[k].call])
    /\ IF calls[screens[k].call].outcome = "resolved"
       THEN InitializeChatReady(k)
       ELSE InitializeChatFailed(k)

\* What a chat_history reply may carry: the conversation as the server
\* held it at some time, oldest first.
Conversation ==
    SelectSeq(Stored, LAMBDA m : OtherUser \in {m.from_user_id, m.to_user_id})
Histories == {SubSeq(Conversation, 1, n) : n \in 0..Len(Conversation)}

\* The state update of handleNewMessage for message m.
handleNewMessage(prev, m) ==
    IF m.from_user_id = OtherUser \/ m.to_user_id = OtherUser
    THEN Append(prev, m)
    ELSE prev

\* loadChatHistory of opening k after its await: the request has settled,
\* with the messages h when it resolved.
HistorySettled(k, h) ==
    /\ screens[k].loading
    /\ reqs[screens[k].req].outcome # "pending"
    /\ screens' = [screens EXCEPT ![k].loading = FALSE]
    /\ messages' = IF ~screens[k].mounted THEN messages
                   ELSE IF reqs[screens[k].req].outcome = "resolved" THEN h
                   ELSE <<>>
    /\ ServiceUntouched
    /\ UNCHANGED <<requestVars, dispatchVars, sending, connected, nMounts,
                   outbox, nextId, nSends>>

\* Transport t delivers receive_message with message m: the dispatcher
\* calls onMessage of every listener, handleNewMessage for the screen's.
ReceiveMessage(t, m) ==
    /\ tstate[t] = "open"
    /\ Len(messages) < MaxLen
    /\ LET done == notifyMessageListeners(messageListeners, EmptySweep)
       IN  /\ invoked' = done.calls
           /\ propagated' = done.propagated
    /\ messages' = IF HearingMessages # {}
                   THEN handleNewMessage(messages, m)
                   ELSE messages
    /\ ServiceUntouched
    /\ UNCHANGED <<requestVars, messageListeners, connectionListeners,
                   sending, screenVars>>

\* Date.now() of the n-th send of the screen (line 394): later than any id
\* the server has given.
TempBase == 100
TempId(n) == TempBase + n

\* The catch block of ChatScreen.sendMessage (lines 417-422).  tempMessage
\* is declared by const inside the try block and is not in scope here: the
\* filter callback throws a ReferenceError on the first entry it is
\* applied to, so the update is not made.
removeTempMessage(prev) == IF prev = <<>> THEN <<>> ELSE prev

\* The user sends text x from the screen (ChatScreen.sendMessage).
ViewSend(x) ==
    LET tmp == Entry(TempId(nSends + 1), x, CurrentUser, OtherUser, TRUE)
        res == sendMessage(Cur)
    IN  /\ \E k \in MountIds : screens[k].mounted
        /\ ~sending /\ connected
        /\ Len(messages) < MaxLen
        /\ nSends' = nSends + 1
        /\ lastSend' = res
        /\ IF res.result = "emitted"
           THEN /\ messages' = Append(messages, tmp)
                /\ sending' = TRUE
                /\ outbox' = Append(outbox, [message |-> x, on |-> res.on])
           ELSE /\ messages' = removeTempMessage(Append(messages, tmp))
                /\ sending' = FALSE
                /\ outbox' = outbox
        /\ ServiceUntouched
        /\ UNCHANGED <<reqs, nReqs, dispatchVars, connected, screens,
                       nMounts, nextId>>

\* The server stores the oldest message the screen sent and confirms it:
\* the transport it was sent on delivers message_sent, the service calls
\* onMessageConfirmed of every listener, handleMessageConfirmed for the
\* screen's.
MessageSent ==
    /\ outbox # <<>>
    /\ tstate[Head(outbox).on] = "open"
    /\ LET c == [id |-> nextId, message |-> Head(outbox).message,
                 from_user_id |-> CurrentUser, to_user_id |-> OtherUser]
           done == onMessageSent(messageListeners, EmptySweep)
           hears == HearingMessages # {}
       IN  /\ invoked' = done.calls
           /\ propagated' = done.propagated
           /\ messages' = IF hears THEN handleMessageConfirmed(messages, c)
                          ELSE messages
           /\ sending' = IF hears THEN FALSE ELSE sending
    /\ outbox' = Tail(outbox)
    /\ nextId' = nextId + 1
    /\ ServiceUntouched
    /\ UNCHANGED <<requestVars, messageListeners, connectionListeners,
                   connected, screens, nMounts, nSends>>

\* The openings and closings of the screen.
NextScreen ==
    \/ OpenChat
    \/ \E k \in MountIds : CloseChat(k)
    \/ \E k \in MountIds : UserReply(k)
    \/ \E k \in MountIds : ConnectSettled(k)

\* The conversation on the screen while the connection stays up once it
\* is made: history, inbound messages, sends and confirmations.
NextChat ==
    \/ NextScreen
    \/ \E p \in CallIds : TokenReply(p)
    \/ \E t \in TransportIds : TransportConnect(t)
    \/ \E k \in MountIds, h \in Histories : HistorySettled(k, h)
    \/ \E t \in TransportIds, m \in {Stored[i] : i \in 1..Len(Stored)} :
          ReceiveMessage(t, m)
    \/ \E x \in Texts : ViewSend(x)
    \/ MessageSent
    \/ \E t \in TransportIds : ChatHistoryEvent(t, OtherUser)
    \/ \E t \in TransportIds, c \in ErrorCauses : ErrorEvent(t, c)
    \/ \E r \in ReqIds : HistoryTimeout(r)

ChatSpec == Init /\ [][NextChat]_vars

\* The screen over a connection that is made, lost, abandoned and torn
\* down by the rest of the application (the log-out of the user list).
NextScreenSession ==
    \/ NextScreen
    \/ Disconnect
    \/ NextEvents
    \/ \E x \in Texts : ViewSend(x)
    \/ MessageSent

ScreenSpec == Init /\ [][NextScreenSession]_vars

\* The texts of the entries of the list that the screen sent.
SentTexts ==
    {messages[i].message : i \in {j \in 1..Len(messages) :
        messages[j].sending \/ messages[j].id > Len(Stored)}}

\* The user sends a text not sent before in the conversation, once the
\* history has been loaded.
SendDistinct(x) ==
    /\ \A k \in MountIds : ~screens[k].loading
    /\ x \notin SentTexts
    /\ ViewSend(x)

\* One conversation over a connection that stays up: the history is
\* loaded, then messages come in and the user sends distinct texts, each
\* confirmed by the server.
NextConfirmedSends ==
    \/ OpenChat
    \/ \E k \in MountIds : UserReply(k)
    \/ \E p \in CallIds : TokenReply(p)
    \/ \E t \in TransportIds : TransportConnect(t)
    \/ \E k \in MountIds : ConnectSettled(k)
    \/ \E t \in TransportIds : ChatHistoryEvent(t, OtherUser)
    \/ \E k \in MountIds, h \in Histories : HistorySettled(k, h)
    \/ \E t \in TransportIds, m \in {Stored[i] : i \in 1..Len(Stored)} :
          ReceiveMessage(t, m)
    \/ \E x \in Texts : SendDistinct(x)
    \/ MessageSent

ConfirmedSendsSpec == Init /\ [][NextConfirmedSends]_vars

\* ------------------------------------------------------------- claims
LiveTransports == {t \in TransportIds : Live(t)}

\* C1: in every reachable state at most one transport created by the
\* service has not been torn down (connect() never replaces the handle it
\* holds by a new transport without tearing the old one down first).
C1_AtMostOneLiveTransport == Cardinality(LiveTransports) <= 1

\* The connect() calls issued from call p on, before p has settled.
Group(p) == {p} \cup {q \in CallIds : p \in calls[q].overlap}
OpenedBy(G) == {t \in TransportIds : tstate[t] # "none" /\ towner[t] \in G}

\* C2: the connect() calls issued before the first of them has settled
\* create one transport in total, never a second one (also when the
\* service starts from a stale handle).
C2_OneTransportPerOverlap ==
    \A p \in CallIds :
        calls[p].pc # "idle" => Cardinality(OpenedBy(Group(p))) <= 1

SetMax(S) == CHOOSE x \in S : \A y \in S : y <= x

\* The calls that took the waiting branch of connect().
Waiters == {q \in CallIds : calls[q].path = "wait"}

\* The attempt a waiting call q waits for: the latest attempt that was in
\* flight when q was issued (0 when there was none).
WaitsFor(q) ==
    LET A == {p \in calls[q].overlap : calls[p].path = "attempt"}
    IN  IF A = {} THEN 0 ELSE SetMax(A)

\* C3: a connect() call issued while an attempt is in flight settles with
\* the outcome of that attempt: resolved if the attempt resolved, rejected
\* if the attempt was rejected (no credential, timeout, connection error).
C3_WaiterSharesOutcome ==
    \A q \in Waiters :
        LET p == WaitsFor(q)
        IN  (p # 0 /\ Settled(calls[q]) /\ Settled(calls[p]))
                => ((calls[q].outcome = "resolved")
                        <=> (calls[p].outcome = "resolved"))

\* C4: a connect() call issued while an attempt is in flight does not
\* settle before that attempt has settled.
C4_WaiterSettlesAfterAttempt ==
    \A q \in Waiters :
        LET p == WaitsFor(q)
        IN  (p # 0 /\ Settled(calls[q])) => Settled(calls[p])

\* C5: when a forceReconnect() called after the stored credential changed
\* from c1 to c2 resolves, the transport held was opened with c2 and no
\* transport opened with another credential is still live (c1 and c2 are
\* credentials: no attempt of the run found the store empty).
C5_ForceReconnectUsesNewCredential ==
    [][\A p \in CallIds :
         (/\ calls[p].kind = "force"
          /\ calls[p].outcome = "pending"
          /\ calls'[p].outcome = "resolved"
          /\ calls[p].token \in Tokens
          /\ \A a \in CallIds : calls[a].path = "attempt"
                                     => calls[a].token \in Tokens
          /\ storeWrites' >= 1
          /\ storedToken' = calls[p].token)
         => (/\ socket' # NoSocket
             /\ ttoken'[socket'] = calls[p].token
             /\ \A t \in TransportIds :
                    tstate'[t] \in {"opening", "open", "dropped"}
                        => ttoken'[t] = calls[p].token)]_vars

\* C6: a disconnect() call made while a transport handle exists notifies
\* the connection listeners with false exactly once (whatever the torn-down
\* transport emits) and leaves the service Disconnected with no handle; a
\* disconnect() call made with no handle notifies nobody and changes
\* nothing, so consecutive calls notify once in total.
C6_DisconnectNotifiesOnce ==
    [][Disconnect =>
         IF socket # NoSocket
         THEN emitted' = <<FALSE>> /\ socket' = NoSocket /\ ~isConnected'
         ELSE /\ emitted' = <<>>
              /\ UNCHANGED <<socket, isConnected, isConnecting, tstate, calls>>
      ]_vars

\* What a listener registered throughout has received: the notification it
\* heard last before the last task, followed by those of that task.
Received == heard \o emitted

\* C7: connection listeners are notified once per change of the connected
\* state: a listener never receives the same boolean twice in a row.
C7_NoRepeatedNotification ==
    \A i \in 1..(Len(Received) - 1) : Received[i] # Received[i + 1]

\* The transport opened by call p (0 when it opened none).
TransportOf(p) ==
    IF \E t \in TransportIds : tstate[t] # "none" /\ towner[t] = p
    THEN CHOOSE t \in TransportIds : tstate[t] # "none" /\ towner[t] = p
    ELSE 0

\* One step settles the promise of a call that has opened its transport
\* in one of the three ways of connect().
SettlesProperly(p) ==
    LET t == TransportOf(p)
    IN  /\ calls'[p].timer # "pending"
        /\ \/ /\ calls'[p].outcome = "resolved"
              /\ tstate[t] = "opening" /\ tstate'[t] = "open"
              /\ calls'[p].timer = "cleared"
           \/ /\ calls'[p].outcome = "timeout"
              /\ tstate'[t] \in {"opening", "closed"}
              /\ calls'[p].timer = "fired"
           \/ /\ calls'[p].outcome = "connectError"
              /\ tstate'[t] = "opening"
              /\ calls'[p].timer = "cleared"

C8_SettleStep ==
    \A p \in CallIds :
        /\ (calls[p].pc = "awaitTransport" /\ Settled(calls'[p]))
              => SettlesProperly(p)
        /\ Settled(calls[p]) => calls'[p] = calls[p]

\* C8: every connect() call that opens a transport eventually settles, and
\* settles exactly once: it resolves when its transport connects, or it
\* rejects with the timeout error when the 10 s timer fires first, or it
\* rejects with the transport's connection error; once settled, its
\* outcome stays and its timer is no longer pending.
C8_OpenedCallSettlesOnce ==
    /\ [][C8_SettleStep]_vars
    /\ \A p \in CallIds :
          (calls[p].pc = "awaitTransport") ~> Settled(calls[p])

\* Two calls that opened a transport have settled: one timed out after
\* its transport was torn down, the other ended with the connection error
\* or the connection of its transport.
C8_Witness ==
    \E p, q \in CallIds :
        /\ TransportOf(p) # 0 /\ calls[p].outcome = "timeout"
        /\ tstate[TransportOf(p)] = "closed"
        /\ TransportOf(q) # 0
        /\ calls[q].outcome \in {"resolved", "connectError"}

\* A connection is established: connected flag set and a handle present.
Established == isConnected /\ socket # NoSocket

\* connect() called while a connection is established.
C9_Step ==
    (Connect /\ Established) =>
        LET p == nCalls + 1
        IN  /\ UNCHANGED <<socket, isConnected, isConnecting, tstate,
                           ttoken, towner, nextT>>
            /\ emitted' = <<>>
            /\ \A q \in CallIds \ {p} : calls'[q] = calls[q]
            /\ calls'[p].path \in {"established", "wait"}
            /\ calls'[p].pc # "awaitToken"
            /\ calls'[p].outcome \in {"pending", "resolved"}
            /\ ~isConnecting => calls'[p].outcome = "resolved"

\* A call that did not start an attempt opens no transport and its
\* promise is never rejected.
C9_NoAttempt ==
    \A p \in CallIds :
        calls[p].path \in {"established", "wait"}
            => /\ TransportOf(p) = 0
               /\ calls[p].timer = "none"
               /\ calls[p].outcome \in {"pending", "resolved"}

\* C9: connect() called while a connection is established (connected flag
\* true, handle present) resolves without creating or tearing down a
\* transport, without reading the credential store and without notifying a
\* listener; the handle, isConnected and isConnecting are unchanged.  It
\* resolves at once, or, when isConnecting is also set, at the poll that
\* finds it cleared.
C9_EstablishedConnectIsNoop ==
    /\ [][C9_Step /\ C9_NoAttempt']_vars
    /\ \A q \in CallIds :
          (calls[q].pc = "waiting") ~> (calls[q].outcome = "resolved")

\* A call made while established has resolved and the connection it found
\* is still there.
C9_Witness ==
    \E p \in CallIds :
        /\ calls[p].path = "established" /\ calls[p].outcome = "resolved"
        /\ Established /\ tstate[socket] = "open"

\* The credential store replies "no credential" to call p.
C10_Step ==
    \A p \in CallIds :
        (TokenReply(p) /\ calls[p].token = NoToken) =>
            /\ calls'[p].outcome = "noCredential"
            /\ isConnecting' = FALSE
            /\ emitted' = <<>>
            /\ UNCHANGED <<socket, isConnected, tstate, ttoken, towner, nextT>>

\* A connect() call made when nothing is in flight and nothing is
\* established starts a fresh attempt.
C10_FreshAttempt ==
    \A p \in CallIds :
        (Connect /\ p = nCalls + 1 /\ ~isConnecting /\ ~Established)
            => calls'[p].path = "attempt" /\ calls'[p].pc = "awaitToken"

\* C10: connect() that starts an attempt and gets no credential from the
\* store rejects with the no-credential error, creates no transport,
\* notifies no listener and leaves isConnecting false, so that a later
\* connect() starts a fresh attempt instead of waiting.
C10_NoCredentialRejects == [][C10_Step /\ C10_FreshAttempt]_vars

\* A call was rejected for want of a credential and a later call started
\* a fresh attempt.
C10_Witness ==
    \E p, q \in CallIds :
        /\ p < q
        /\ calls[p].outcome = "noCredential"
        /\ calls[q].path = "attempt"
        /\ calls[q].overlap = {}

\* C11: sendMessage() emits send_message on the transport held exactly
\* when a transport handle exists and the connected flag is true; in every
\* other state it throws the not-connected error and emits nothing; the
\* call never changes the state of the service.
C11_SendEmitsIffConnected ==
    [][SendMessage =>
        /\ (socket # NoSocket /\ isConnected)
              <=> lastSend'.result = "emitted"
        /\ lastSend'.result = "emitted" => lastSend'.on = socket
        /\ lastSend'.result # "emitted"
              => lastSend' = [result |-> "thrown", on |-> NoSocket]
        /\ UNCHANGED <<socket, isConnected, isConnecting, tstate, ttoken,
                       towner, nextT, calls, nCalls, reqs, nReqs>>]_vars

\* A send was refused while a transport was held but not connected.
C11_Witness ==
    /\ lastSend.result = "thrown"
    /\ socket # NoSocket
    /\ ~isConnected
    /\ \E t \in TransportIds : tstate[t] = "closed"

\* C12: an accepted getChatHistory() call settles at the latest when its
\* 10 s timer expires: a request whose timer is no longer pending (it
\* fired, or a handler cleared it) has settled, also when disconnect() or
\* forceReconnect() ran while it was pending.
C12_AcceptedRequestSettles ==
    \A r \in ReqIds :
        (reqs[r].pc = "issued" /\ reqs[r].timer # "pending")
            => reqs[r].outcome # "pending"

\* C13: once a getChatHistory() request has settled, neither its
\* chat_history handler nor its error handler is registered on a transport
\* that can still deliver events, and its timer is not pending.
C13_SettledRequestIsUnregistered ==
    \A r \in ReqIds :
        reqs[r].outcome \in {"resolved", "error", "timeout"}
            => /\ reqs[r].timer # "pending"
               /\ ~(Live(reqs[r].on) /\ (reqs[r].hist \/ reqs[r].err))

\* The requests whose chat_history handler transport t calls for an event.
HistoryHandlers(t) == {r \in ReqIds : reqs[r].on = t /\ reqs[r].hist}

\* A chat_history event for user u leaves every request with another key
\* as it is.
C14_OtherKeyUntouched ==
    \A t \in TransportIds, u \in Users :
        ChatHistoryEvent(t, u) =>
            \A r \in ReqIds : reqs[r].key # u => reqs'[r] = reqs[r]

\* A chat_history event for user u resolves the pending requests for u
\* whose handler is on the transport, each with the messages of that event.
C14_OwnKeyResolves ==
    \A t \in TransportIds, u \in Users :
        ChatHistoryEvent(t, u) =>
            \A r \in HistoryHandlers(t) :
                (reqs[r].key = u /\ reqs[r].outcome = "pending")
                    => /\ reqs'[r].outcome = "resolved"
                       /\ reqs'[r].result = u

\* C14: a chat_history event whose other_user_id differs from a pending
\* request's key leaves that request pending with its handlers and timer
\* intact; the event whose other_user_id equals the key resolves the
\* request with that event's messages, whatever the order of arrival, and
\* no request is ever resolved with the messages of another key.
C14_CorrelatesByKey ==
    [][/\ C14_OtherKeyUntouched
       /\ C14_OwnKeyResolves
       /\ \A r \in ReqIds : reqs'[r].outcome = "resolved"
                               => reqs'[r].result = reqs'[r].key]_vars

\* C15: an error event rejects only the history request it answers: it
\* settles no other pending request, and an error answering a send_message
\* settles no history request at all.
C15_ErrorRejectsOnlyItsRequest ==
    [][\A t \in TransportIds, c \in ErrorCauses :
          ErrorEvent(t, c) =>
              \A r \in ReqIds \ {c} : reqs'[r].outcome = reqs[r].outcome]_vars

\* The accepted requests that have not settled.
Outstanding == {r \in ReqIds : reqs[r].pc = "issued"
                                /\ reqs[r].outcome = "pending"}

\* C16: at most one history request per otherUserId is outstanding: a
\* second getChatHistory() call for the same user, made while the first is
\* unsettled, gets no handlers and no timer of its own.
C16_OneRequestPerConversation ==
    \A r1, r2 \in Outstanding : reqs[r1].key = reqs[r2].key => r1 = r2

Registered(ls) == {ls[i] : i \in 1..Len(ls)}
TimesCalled(done, l, via) ==
    Cardinality({i \in 1..Len(done) : done[i] = [listener |-> l,
                                                 via |-> via]})
TimesInvoked(done, l) ==
    Cardinality({i \in 1..Len(done) : done[i].listener = l})

\* A receive_message event calls every registered message listener that
\* can take a message once, the function itself or else its onMessage, and
\* nothing else; no exception leaves the handler.
C17_MessageDelivery ==
    (\E t \in TransportIds : ReceiveMessageEvent(t)) =>
        /\ ~propagated'
        /\ \A l \in Registered(messageListeners) :
              /\ TimesInvoked(invoked', l)
                    = IF l.shape = "function" \/ l.onMessage THEN 1 ELSE 0
              /\ l.shape = "function" => TimesCalled(invoked', l, "call") = 1
              /\ (l.shape = "object" /\ l.onMessage)
                    => TimesCalled(invoked', l, "onMessage") = 1

\* Every connection notification of a task calls every registered
\* connection listener once; no exception leaves the sweep.
C17_ConnectionDelivery ==
    LET sweep == notifyEachConnectionListener(connectionListeners, EmptySweep)
    IN  emitted # <<>> =>
            /\ ~sweep.propagated
            /\ \A l \in Registered(connectionListeners) :
                  TimesCalled(sweep.calls, l, "call") = 1

\* C17: on every receive_message event each registered message listener
\* is invoked exactly once through its inbound capability, and on every
\* connection notification each registered connection listener is invoked
\* exactly once, also when other registered listeners throw; no listener
\* exception reaches the transport callback.
C17_ListenersIsolated ==
    [][C17_MessageDelivery]_vars /\ []C17_ConnectionDelivery

\* A message was delivered to a listener registered after one that threw,
\* and a connection notification reaches listeners of which the first
\* throws.
C17_Witness ==
    /\ \E i, j \in 1..Len(invoked) :
          /\ i < j
          /\ invoked[i].listener.throws
          /\ ~invoked[j].listener.throws
          /\ invoked[j].via \in {"call", "onMessage"}
    /\ emitted # <<>>
    /\ Len(connectionListeners) = 2
    /\ connectionListeners[1].throws

\* C18: on every message_sent event the onMessageConfirmed of every
\* registered message listener that has one is called exactly once, also
\* when the onMessageConfirmed of another listener throws, and no
\* exception reaches the transport callback.
C18_ConfirmationsIsolated ==
    [][(\E t \in TransportIds : MessageSentEvent(t)) =>
          /\ ~propagated'
          /\ \A l \in Registered(messageListeners) :
                l.onMessageConfirmed
                    => TimesCalled(invoked', l, "onMessageConfirmed") = 1]_vars

\* The positions of the provisional entries confirmation c is for.
Matching(c) == {i \in 1..Len(messages) : Matches(messages[i], c)}

\* C19: a confirmation whose (text, from, to) matches exactly one
\* provisional entry replaces that entry, at its position, by the
\* confirmed message (server id, provisional flag cleared); the length of
\* the list and every other entry stay; a confirmation matching no
\* provisional entry leaves the list unchanged.
C19_ConfirmationRewritesInPlace ==
    [][\A c \in Confirmations :
          MessageConfirmed(c) =>
              LET m == Matching(c)
              IN  Cardinality(m) <= 1 =>
                    /\ Len(messages') = Len(messages)
                    /\ \A i \in 1..Len(messages) :
                          messages'[i] = IF i \in m THEN Confirmed(c)
                                         ELSE messages[i]
                    /\ m = {} => messages' = messages]_vars

\* A provisional entry standing between two other entries was confirmed:
\* it carries the server id and is no longer provisional.
C19_Witness ==
    /\ Len(messages) = 3
    /\ messages[1] = Entry(1, "b", OtherUser, CurrentUser, FALSE)
    /\ messages[2] = Entry(2, "a", CurrentUser, OtherUser, FALSE)
    /\ messages[3] = Entry(1, "b", CurrentUser, OtherUser, TRUE)
    /\ ~sending

\* C20: when several provisional entries have the (text, from, to) of a
\* confirmation, the confirmation rewrites the earliest of them only; the
\* later ones stay as they are, provisional.
C20_EarliestMatchOnly ==
    [][\A c \in Confirmations :
          (MessageConfirmed(c) /\ Cardinality(Matching(c)) >= 2) =>
              LET first == CHOOSE i \in Matching(c) :
                               \A j \in Matching(c) : i <= j
              IN  /\ messages'[first] = Confirmed(c)
                  /\ \A j \in Matching(c) \ {first} :
                        messages'[j] = messages[j]]_vars

\* C26: getConnectionStatus() returns true exactly when the transport held
\* by the service is in its connected state.
C26_StatusIsHeldTransportState ==
    getConnectionStatus <=> (socket # NoSocket /\ tstate[socket] = "open")

\* Call p is an attempt that disconnect() or forceReconnect() abandoned:
\* its transport was torn down while its promise was unsettled and its
\* timer armed.
Abandoned(p) ==
    /\ calls[p].timer = "pending"
    /\ TransportOf(p) # 0
    /\ tstate[TransportOf(p)] = "closed"

\* C27: the 10 s timer of an attempt that disconnect() or forceReconnect()
\* abandoned changes neither isConnected nor isConnecting when it expires,
\* and no connection listener is notified.
C27_AbandonedAttemptIsInert ==
    [][\A p \in CallIds :
          (Abandoned(p) /\ ConnectTimeout(p)) =>
              /\ UNCHANGED <<isConnected, isConnecting>>
              /\ emitted' = <<>>]_vars

\* C29: when the last connect() call made has rejected by timeout or by
\* connection error, the transport it left behind does not set
\* isConnected: the service stays not connected until another call.
C29_RejectedAttemptStaysDown ==
    [][\A t \in TransportIds :
          (/\ TransportConnect(t)
           /\ towner[t] = nCalls
           /\ calls[nCalls].outcome \in {"timeout", "connectError"})
              => ~isConnected']_vars

\* The attempts (calls past the in-flight and already-connected checks of
\* connect()) that have not settled.
AttemptsInFlight ==
    {p \in CallIds : calls[p].path = "attempt" /\ Pending(calls[p])}

\* C30: isConnecting is true exactly when some connect() attempt has
\* started and has not settled.
C30_ConnectingIffAttemptInFlight ==
    isConnecting <=> AttemptsInFlight # {}

\* The screen's message listener is registered and its component mounted:
\* the dispatcher's calls reach the list on display.
ScreenListens == HearingMessages # {}

\* C21: handleNewMessage leaves the list unchanged for every message whose
\* from_user_id differs from the other party of the open conversation, and
\* appends the message at the end of the list when from_user_id is the
\* other party.
C21_InboundFromOtherPartyOnly ==
    [][\A t \in TransportIds, i \in 1..Len(Stored) :
          (ReceiveMessage(t, Stored[i]) /\ ScreenListens) =>
              messages' = IF Stored[i].from_user_id = OtherUser
                          THEN Append(messages, Stored[i])
                          ELSE messages]_vars

\* C23: while a conversation is open, no two entries of the message list
\* have the same id.
C23_NoDuplicateIds ==
    (\E k \in MountIds : screens[k].mounted) =>
        \A i, j \in 1..Len(messages) :
            i # j => messages[i].id # messages[j].id

\* Entry new is entry old, or what its confirmation rewrites it to.
Rewritten(old, new) ==
    \/ new = old
    \/ /\ old.sending /\ ~new.sending
       /\ new.message = old.message
       /\ new.from_user_id = old.from_user_id
       /\ new.to_user_id = old.to_user_id

\* The entries of list a are in list b, in the same order.
RECURSIVE Embeds(_, _)
Embeds(a, b) ==
    IF a = <<>> THEN TRUE
    ELSE IF b = <<>> THEN FALSE
    ELSE IF Rewritten(Head(a), Head(b)) THEN Embeds(Tail(a), Tail(b))
    ELSE Embeds(a, Tail(b))

\* C24: while a conversation stays open, every entry of its list stays in
\* the list, as it is or rewritten by its confirmation, in the same
\* relative order; a history reply or failure that settles after an entry
\* was appended does not remove it.
C24_EntriesStay ==
    [][(\E k \in MountIds : screens[k].mounted /\ screens'[k].mounted) =>
          Embeds(messages, messages')]_vars

\* C25: when the screen sends a message and SocketService.sendMessage
\* throws after the provisional entry was appended, the list afterwards is
\* the list before the append: the provisional entry is deleted and no
\* other entry is.
C25_FailedSendRestoresList ==
    [][\A x \in Texts :
          (ViewSend(x) /\ sendMessage(Cur).result = "thrown") =>
              messages' = messages]_vars

\* Opening k of the screen was torn down: its cleanup has run.
TornDown(k) == screens[k].pc # "closed" /\ ~screens[k].mounted

\* Listener l is in the sequence ls.
Holds(ls, l) == \E i \in 1..Len(ls) : ls[i] = l

\* C28: after the teardown of a chat screen the message listener and the
\* connection listener it registered are in the listener sets of the
\* service no longer, whenever its initialisation ran, so that opening and
\* closing conversations leaves both sets the size they had.
C28_TeardownDeregisters ==
    \A k \in MountIds :
        TornDown(k) =>
            /\ ~Holds(messageListeners, ChatMessageListener(k))
            /\ ~Holds(connectionListeners, ChatConnectionListener(k))

\* The positions of the list whose entries the screen sent: provisional,
\* or with an id the server gave during the run.
SentEntries ==
    {i \in 1..Len(messages) :
        messages[i].sending \/ messages[i].id > Len(Stored)}

TypeOK ==
    /\ socket \in {NoSocket} \cup TransportIds
    /\ isConnected \in BOOLEAN
    /\ isConnecting \in BOOLEAN
    /\ nextT \in 0..MaxCalls
    /\ Len(heard) <= 1
====
